---- MODULE Spec2Model ----
(***************************************************************************)
(* Model of streamlit_app.py (Farming Assistant): the knowledge-base       *)
(* loader load_any_kb, flatten_kb, the matcher get_bot_response, the       *)
(* rewriting wrapper get_hf_response and the prompt branch of main.        *)
(*                                                                         *)
(* A Python string is a sequence of one-character strings, so that         *)
(* lower(), strip(), split() and the substring test `in` are computed      *)
(* character by character.  Texts whose characters never matter (the       *)
(* fallback message, the text returned by the hosted model) are            *)
(* one-element sequences holding the whole text.                           *)
(*                                                                         *)
(* Scores are kept in half units: 1 stands for 0.5, 2 for 1.0, 4 for 2.0.  *)
(***************************************************************************)
EXTENDS Integers, Sequences, FiniteSets, TLC

VARIABLES files,          \* the two candidate files, as found on disk
          has_token,      \* "HF_TOKEN" in st.secrets
          kb,             \* the merged knowledge base
          st_errors,      \* the st.error calls made
          st_warnings,    \* the st.warning calls made
          kb_items,       \* the flat index
          pc,             \* "start", "loaded", "ready", "answered"
          user_input,     \* the query of the last call of get_bot_response
          scores,         \* the values `score` took for each entry it scored
          basic_answer,   \* what get_bot_response returned
          final_response, \* what get_hf_response returned
          hf_called,      \* whether the hosted model was called
          hf_raised,      \* whether that call raised
          messages        \* st.session_state.messages

vars == <<files, has_token, kb, st_errors, st_warnings, kb_items, pc, user_input,
          scores, basic_answer, final_response, hf_called, hf_raised, messages>>

(***************************************************************************)
(* Bounds                                                                  *)
(***************************************************************************)
MaxQueryLen == 3

MaxIndexLen == 2

MaxRecs == 2

MaxTurns == 1

(***************************************************************************)
(* Strings                                                                 *)
(***************************************************************************)
EmptyStr == <<>>

NoneVal == <<"None">>

UpperChars == <<"A","B","C","D","E","F","G","H","I","J","K","L","M",
                "N","O","P","Q","R","S","T","U","V","W","X","Y","Z">>

LowerChars == <<"a","b","c","d","e","f","g","h","i","j","k","l","m",
                "n","o","p","q","r","s","t","u","v","w","x","y","z">>

IsSpace(c) == c \in {" ", "\t", "\n"}

LowerChar(c) ==
    IF \E i \in 1..Len(UpperChars) : UpperChars[i] = c
    THEN LowerChars[CHOOSE i \in 1..Len(UpperChars) : UpperChars[i] = c]
    ELSE c

\* str.lower()
Lower(s) == [i \in 1..Len(s) |-> LowerChar(s[i])]

RECURSIVE LStrip(_)
LStrip(s) ==
    IF s = <<>> THEN <<>>
    ELSE IF IsSpace(Head(s)) THEN LStrip(Tail(s)) ELSE s

RECURSIVE RStrip(_)
RStrip(s) ==
    IF s = <<>> THEN <<>>
    ELSE IF IsSpace(s[Len(s)]) THEN RStrip(SubSeq(s, 1, Len(s) - 1)) ELSE s

\* str.strip()
Strip(s) == RStrip(LStrip(s))

\* a in b, for strings
Contains(b, a) ==
    \E i \in 0..(Len(b) - Len(a)) : SubSeq(b, i + 1, i + Len(a)) = a

\* str.split() with no argument, as a scan: cur is the token being read,
\* acc the tokens read so far
RECURSIVE SplitFrom(_, _, _)
SplitFrom(s, cur, acc) ==
    IF s = <<>>
    THEN IF cur = <<>> THEN acc ELSE Append(acc, cur)
    ELSE IF IsSpace(Head(s))
         THEN SplitFrom(Tail(s), <<>>, IF cur = <<>> THEN acc ELSE Append(acc, cur))
         ELSE SplitFrom(Tail(s), Append(cur, Head(s)), acc)

SplitLongOnly(s) ==
    LET all == SplitFrom(s, <<>>, <<>>)
    IN  SelectSeq(all, LAMBDA t : Len(t) > 2)

Split(s) == SplitFrom(s, <<>>, <<>>)

\* set(s.split())
TokenSet(s) == {Split(s)[i] : i \in 1..Len(Split(s))}

(***************************************************************************)
(* get_bot_response                                                        *)
(***************************************************************************)
CatWeight == 2

SubstrWeight == 4

TokenWeightWhole == CatWeight

TokenWeight == 1

Threshold == 2

S_fertilizer == <<"f","e","r","t","i","l","i","z","e","r">>
S_manure == <<"m","a","n","u","r","e">>
S_nutrient == <<"n","u","t","r","i","e","n","t">>
S_pests == <<"p","e","s","t","s">>
S_pest == <<"p","e","s","t">>
S_insect == <<"i","n","s","e","c","t">>
S_worm == <<"w","o","r","m">>
S_spray == <<"s","p","r","a","y">>
S_irrigation == <<"i","r","r","i","g","a","t","i","o","n">>
S_water == <<"w","a","t","e","r">>
S_watering == <<"w","a","t","e","r","i","n","g">>
S_weather == <<"w","e","a","t","h","e","r">>
S_rain == <<"r","a","i","n">>
S_forecast == <<"f","o","r","e","c","a","s","t">>
S_soil == <<"s","o","i","l">>
S_ph == <<"p","h">>
S_testing == <<"t","e","s","t","i","n","g">>
S_market == <<"m","a","r","k","e","t">>
S_price == <<"p","r","i","c","e">>
S_msp == <<"m","s","p">>
S_sell == <<"s","e","l","l">>

\* the dict cat_keywords, as (key, list) pairs
cat_keywords ==
    << <<S_fertilizer, <<S_fertilizer, S_manure, S_nutrient>> >>,
       <<S_pests,      <<S_pest, S_insect, S_worm, S_spray>> >>,
       <<S_irrigation, <<S_irrigation, S_water, S_watering>> >>,
       <<S_weather,    <<S_weather, S_rain, S_forecast>> >>,
       <<S_soil,       <<S_soil, S_ph, S_testing>> >>,
       <<S_market,     <<S_price, S_market, S_msp, S_sell>> >> >>

\* d.get(key, []) on a dict kept as (key, value) pairs
DictGet(d, key) ==
    IF \E i \in 1..Len(d) : d[i][1] = key
    THEN d[CHOOSE i \in 1..Len(d) : d[i][1] = key][2]
    ELSE <<>>

KeywordsOfNormalized(category) == DictGet(cat_keywords, Strip(Lower(category)))

\* cat_keywords.get(category, [])
KeywordsOf(category) == DictGet(cat_keywords, category)

\* any(keyword in ui for keyword in cat_keywords.get(category, []))
CategoryHit(ui, category) ==
    \E i \in 1..Len(KeywordsOf(category)) : Contains(ui, KeywordsOf(category)[i])

\* len(ui_tokens.intersection(query_tokens))
Overlap(ui, ql) == Cardinality(TokenSet(ui) \cap TokenSet(ql))

\* the successive values of the local `score` for one entry: after the
\* category test, after the substring test, after the token overlap
ScoreSteps(ui, entry) ==
    LET ql == Lower(entry[2])
        s1 == IF CategoryHit(ui, entry[1]) THEN CatWeight ELSE 0
        s2 == s1 + (IF Contains(ui, ql) THEN SubstrWeight ELSE 0)
        s3 == s2 + TokenWeight * Overlap(ui, ql)
    IN  <<s1, s2, s3>>

ReplacesOnTie(score, best_score) == score >= best_score

\* if score > best_score
Replaces(score, best_score) == score > best_score

\* the for loop over kb_items from entry i on; st holds best_score,
\* best_answer and the score steps of the entries visited
RECURSIVE ScanItems(_, _, _, _)
ScanItems(ui, items, i, st) ==
    IF i > Len(items) THEN st
    ELSE LET steps == ScoreSteps(ui, items[i])
             score == steps[3]
             hit   == Replaces(score, st.best_score)
         IN  ScanItems(ui, items, i + 1,
                 [best_score  |-> IF hit THEN score ELSE st.best_score,
                  best_answer |-> IF hit THEN items[i][3] ELSE st.best_answer,
                  scores      |-> Append(st.scores, steps)])

NormalizeNoStrip(s) == Lower(s)

\* ui = user_input.lower().strip()
Normalize(s) == Strip(Lower(s))

ReachesStrict(best_score) == best_score > Threshold

\* best_score >= 1.0
Reaches(best_score) == best_score >= Threshold

\* get_bot_response: the returned string and the score steps of the
\* entries it scored
BotResponse(input, items) ==
    LET ui == Normalize(input)
    IN  IF ui = <<>> \/ items = <<>>
        THEN [answer |-> EmptyStr, scores |-> <<>>]
        ELSE LET st == ScanItems(ui, items, 1,
                           [best_score |-> 0, best_answer |-> NoneVal, scores |-> <<>>])
             IN  [answer |-> IF Reaches(st.best_score) THEN st.best_answer ELSE EmptyStr,
                  scores |-> st.scores]

(***************************************************************************)
(* load_any_kb                                                             *)
(***************************************************************************)
S_crops == <<"c","r","o","p","s">>
S_Soil == <<"S","o","i","l">>

\* A JSON value that is no list (a string), and a JSON list of records
JStr == [type |-> "str"]

JList(recs) == [type |-> "list", items |-> recs]

\* A JSON object, as (key, value) pairs in document order
JDict(pairs) == [type |-> "dict", items |-> pairs]

candidates == <<"dataset.json", "diseases.json">>

\* k in kb
HasKey(d, k) == \E i \in 1..Len(d) : d[i][1] = k

PutOverwrite(d, k, v) ==
    IF HasKey(d, k)
    THEN [i \in 1..Len(d) |-> IF d[i][1] = k THEN <<k, v>> ELSE d[i]]
    ELSE Append(d, <<k, v>>)

\* if k not in kb: kb[k] = v
PutIfAbsent(d, k, v) == IF HasKey(d, k) THEN d ELSE Append(d, <<k, v>>)

\* for k, v in data.items(): ...
RECURSIVE MergeItems(_, _)
MergeItems(d, pairs) ==
    IF pairs = <<>> THEN d
    ELSE MergeItems(PutIfAbsent(d, Head(pairs)[1], Head(pairs)[2]), Tail(pairs))

\* Whether the body of the try raises for this file: open/json.load fail on
\* an unreadable or unparseable file, data.items() on a top-level value
\* that is no dict
Raises(file) == file.kind = "unparseable" \/ file.data.type # "dict"

\* the for loop over candidates from candidate i on; st holds kb and the
\* st.error calls made
RECURSIVE LoadFromAbortOnError(_, _, _)
LoadFromAbortOnError(fs, i, st) ==
    IF i > Len(candidates) THEN st
    ELSE IF fs[i].kind = "missing" THEN LoadFromAbortOnError(fs, i + 1, st)
    ELSE IF Raises(fs[i])
         THEN [kb |-> st.kb, errors |-> Append(st.errors, candidates[i])]
         ELSE LoadFromAbortOnError(fs, i + 1,
                  [kb |-> MergeItems(st.kb, fs[i].data.items), errors |-> st.errors])

RECURSIVE LoadFrom(_, _, _)
LoadFrom(fs, i, st) ==
    IF i > Len(candidates) THEN st
    ELSE IF fs[i].kind = "missing" THEN LoadFrom(fs, i + 1, st)
    ELSE IF Raises(fs[i])
         THEN LoadFrom(fs, i + 1,
                  [kb |-> st.kb, errors |-> Append(st.errors, candidates[i])])
         ELSE LoadFrom(fs, i + 1,
                  [kb |-> MergeItems(st.kb, fs[i].data.items), errors |-> st.errors])

(***************************************************************************)
(* flatten_kb                                                              *)
(***************************************************************************)
\* e.get(field, "")
RecGet(e, field) == IF field \in DOMAIN e THEN e[field] ELSE EmptyStr

KeepsEither(q, a) == q # EmptyStr \/ a # EmptyStr

\* if q and a
Keeps(q, a) == q # EmptyStr /\ a # EmptyStr

\* the inner loop over the records of one category
RECURSIVE FlattenEntries(_, _, _)
FlattenEntries(category, recs, acc) ==
    IF recs = <<>> THEN acc
    ELSE LET q == Strip(RecGet(Head(recs), "query"))
             a == Strip(RecGet(Head(recs), "answer"))
         IN  FlattenEntries(category, Tail(recs),
                 IF Keeps(q, a) THEN Append(acc, <<category, q, a>>) ELSE acc)

\* the outer loop over kb.items()
RECURSIVE FlattenFrom(_, _)
FlattenFrom(pairs, acc) ==
    IF pairs = <<>> THEN acc
    ELSE FlattenFrom(Tail(pairs),
             IF Head(pairs)[2].type = "list"
             THEN FlattenEntries(Head(pairs)[1], Head(pairs)[2].items, acc)
             ELSE acc)

FlattenKb(d) == FlattenFrom(d, <<>>)

(***************************************************************************)
(* get_hf_response                                                         *)
(***************************************************************************)
fallback_message == <<"I'm sorry, I couldn't find a specific answer for that. Please try rephrasing your question.">>

HfOnFailureFallback(kb_answer) == fallback_message

\* the two return kb_answer statements: no token, or an exception
HfOnFailure(kb_answer) == kb_answer

\* get_hf_response: token says whether HF_TOKEN is in st.secrets, outcome
\* what the hosted model does when called: it raises, or it answers with
\* the text outcome.text
HfResponse(kb_answer, token, outcome) ==
    IF kb_answer = EmptyStr
    THEN [text |-> fallback_message, called |-> FALSE, raised |-> FALSE,
          errors |-> <<>>, warnings |-> <<>>]
    ELSE IF ~token
    THEN [text |-> HfOnFailure(kb_answer), called |-> FALSE, raised |-> FALSE,
          errors |-> <<"HF_TOKEN">>, warnings |-> <<>>]
    ELSE IF outcome.raises
    THEN [text |-> HfOnFailure(kb_answer), called |-> TRUE, raised |-> TRUE,
          errors |-> <<>>, warnings |-> <<"Hugging Face">>]
    ELSE [text |-> outcome.text, called |-> TRUE, raised |-> FALSE,
          errors |-> <<>>, warnings |-> <<>>]

(***************************************************************************)
(* speak_text_autoplay                                                     *)
(***************************************************************************)
\* the st.error call of speak_text_autoplay when gTTS raises
SpeakErrors(voice) == IF voice = "failed" THEN <<"text-to-speech">> ELSE <<>>

(***************************************************************************)
(* Inputs                                                                  *)
(***************************************************************************)
\* All sequences over S of length at most n
SeqsUpTo(S, n) == UNION {[1..k -> S] : k \in 0..n}

\* The ordered dicts with distinct keys from K (at most two) and values from V
DictsOver(K, V) ==
    {<<>>} \cup {<< <<k, v>> >> : k \in K, v \in V}
           \cup {<< <<k1, v1>>, <<k2, v2>> >> :
                    <<k1, k2>> \in {p \in K \X K : p[1] # p[2]}, <<v1, v2>> \in V \X V}

\* Knowledge-base files of the application run
FileRecords == {[query |-> <<"p">>, answer |-> <<"x">>]}

FileValues == {JStr} \cup {JList(r) : r \in SeqsUpTo(FileRecords, 1)}

FileStates ==
    {[kind |-> "missing"], [kind |-> "unparseable"],
     [kind |-> "json", data |-> JList(<<>>)]}
    \cup {[kind |-> "json", data |-> JDict(d)] : d \in DictsOver({S_soil, S_crops}, FileValues)}

\* Records given to flatten_kb
FlattenRecords ==
    {[query |-> <<"p">>, answer |-> <<"x">>],
     [query |-> <<" ","H"," ","p"," ">>, answer |-> <<" ","y">>],
     [query |-> <<" "," ">>, answer |-> <<"x">>],
     [answer |-> <<"x">>],
     [query |-> <<"p">>, answer |-> <<>>],
     [query |-> <<"p">>]}

FlattenValues == {JStr} \cup {JList(r) : r \in SeqsUpTo(FlattenRecords, MaxRecs)}

FlattenInputs == DictsOver({S_soil, S_crops}, FlattenValues)

\* Entries and queries given to get_bot_response
MatchEntries ==
    {<<S_soil,  <<"p">>,         <<"x">>>>,
     <<S_soil,  <<"p">>,         <<"y">>>>,
     <<S_Soil,  <<"p">>,         <<"x">>>>,
     <<S_soil,  <<"H"," ","p">>, <<"y">>>>,
     <<S_crops, <<"H"," ","p">>, <<"x">>>>,
     <<S_crops, <<"H"," ","p">>, <<"y">>>>,
     <<S_crops, <<"p","h","p"," ","p">>, <<"x">>>>,
     <<S_Soil,  <<"p","h","p">>, <<"y">>>>,
     <<S_pests, <<"p">>,         <<"y">>>>}

MatchIndexes == SeqsUpTo(MatchEntries, MaxIndexLen)

MatchQueries ==
    SeqsUpTo({"p", "h", " "}, MaxQueryLen)
    \cup {<<"P","H">>, <<" ","P"," ">>, <<"p","h","p"," ","p">>,
          <<"s","o","i","l">>, <<"p"," ","p","h","p"," ","h">>, S_pests}

\* Prompts and outcomes of one run of main
Prompts == {<<"p","h">>, <<"h">>}

\* The voice checkbox and what text-to-speech does: not asked, played, failed
VoiceOutcomes == {"off", "played", "failed"}

HfOutcomes == {[raises |-> TRUE], [raises |-> FALSE, text |-> <<"rewritten answer">>]}

greeting == [role |-> "assistant", content |-> <<"Hello! How can I help you with your farming today?">>]

(***************************************************************************)
(* The application: load_any_kb, flatten_kb, then runs of main with a      *)
(* prompt                                                                  *)
(***************************************************************************)
\* Nothing asked yet
NoTurn ==
    /\ user_input = EmptyStr
    /\ scores = <<>>
    /\ basic_answer = EmptyStr
    /\ final_response = EmptyStr
    /\ hf_called = FALSE
    /\ hf_raised = FALSE
    /\ st_warnings = <<>>
    /\ messages = <<greeting>>

Init ==
    /\ files \in FileStates \X FileStates
    /\ has_token \in BOOLEAN
    /\ pc = "start"
    /\ kb = <<>>
    /\ st_errors = <<>>
    /\ kb_items = <<>>
    /\ NoTurn

\* kb = load_any_kb()
LoadAnyKb ==
    /\ pc = "start"
    /\ LET st == LoadFrom(files, 1, [kb |-> <<>>, errors |-> <<>>])
       IN  /\ kb' = st.kb
           /\ st_errors' = st.errors
    /\ pc' = "loaded"
    /\ UNCHANGED <<files, has_token, kb_items, user_input, scores, basic_answer,
                   final_response, hf_called, hf_raised, st_warnings, messages>>

\* kb_items = flatten_kb(kb)
Flatten ==
    /\ pc = "loaded"
    /\ kb_items' = FlattenKb(kb)
    /\ pc' = "ready"
    /\ UNCHANGED <<files, has_token, kb, st_errors, user_input, scores, basic_answer,
                   final_response, hf_called, hf_raised, st_warnings, messages>>

\* main, if prompt: the answer is matched, rewritten, appended to the
\* transcript and, with voice output enabled, spoken
MainTurn(prompt, outcome, voice) ==
    /\ pc \in {"ready", "answered"}
    /\ prompt # EmptyStr
    /\ Len(messages) < 1 + 2 * MaxTurns
    /\ LET bot == BotResponse(prompt, kb_items)
           hf  == HfResponse(bot.answer, has_token, outcome)
       IN  /\ user_input' = prompt
           /\ scores' = bot.scores
           /\ basic_answer' = bot.answer
           /\ final_response' = hf.text
           /\ hf_called' = hf.called
           /\ hf_raised' = hf.raised
           /\ st_errors' = st_errors \o hf.errors \o SpeakErrors(voice)
           /\ st_warnings' = st_warnings \o hf.warnings
           /\ messages' = messages \o <<[role |-> "user", content |-> prompt],
                                        [role |-> "assistant", content |-> hf.text]>>
    /\ pc' = "answered"
    /\ UNCHANGED <<files, has_token, kb, kb_items>>

Next ==
    \/ LoadAnyKb
    \/ Flatten
    \/ \E prompt \in Prompts, outcome \in HfOutcomes, voice \in VoiceOutcomes :
           MainTurn(prompt, outcome, voice)

Spec == Init /\ [][Next]_vars

(***************************************************************************)
(* flatten_kb applied to bounded knowledge bases                           *)
(***************************************************************************)
FlattenInit ==
    /\ files = <<[kind |-> "missing"], [kind |-> "missing"]>>
    /\ has_token = FALSE
    /\ pc = "loaded"
    /\ kb \in FlattenInputs
    /\ st_errors = <<>>
    /\ kb_items = <<>>
    /\ NoTurn

FlattenNext == Flatten

FlattenSpec == FlattenInit /\ [][FlattenNext]_vars

(***************************************************************************)
(* get_bot_response applied to bounded queries and indexes                 *)
(***************************************************************************)
MatchInit ==
    /\ files = <<[kind |-> "missing"], [kind |-> "missing"]>>
    /\ has_token = FALSE
    /\ pc = "ready"
    /\ kb = <<>>
    /\ st_errors = <<>>
    /\ kb_items \in MatchIndexes
    /\ NoTurn

\* basic_answer = get_bot_response(query, kb_items)
GetBotResponse(query) ==
    /\ pc = "ready"
    /\ LET bot == BotResponse(query, kb_items)
       IN  /\ user_input' = query
           /\ scores' = bot.scores
           /\ basic_answer' = bot.answer
    /\ pc' = "answered"
    /\ UNCHANGED <<files, has_token, kb, st_errors, kb_items, final_response,
                   hf_called, hf_raised, st_warnings, messages>>

MatchNext == \E query \in MatchQueries : GetBotResponse(query)

MatchSpec == MatchInit /\ [][MatchNext]_vars

(***************************************************************************)
(* Properties of get_bot_response (checked under MatchSpec)                *)
(***************************************************************************)
\* The positions of the index
Entries == 1..Len(kb_items)

\* The final score of entry i in the last call
FinalScore(i) == scores[i][3]

\* What each of the three signals added for entry i
CategoryPart(i) == scores[i][1]

SubstringPart(i) == scores[i][2] - scores[i][1]

TokenPart(i) == scores[i][3] - scores[i][2]

\* Every entry was scored
AllScored == pc = "answered" /\ kb_items # <<>> /\ Len(scores) = Len(kb_items)

MaxScore == CHOOSE m \in {FinalScore(i) : i \in Entries} : \A i \in Entries : FinalScore(i) <= m

\* The earliest entry that reaches the maximal score
FirstMax == CHOOSE i \in Entries : FinalScore(i) = MaxScore /\ \A j \in 1..(i - 1) : FinalScore(j) < MaxScore

\* A string with no character other than whitespace (the empty one too)
Blank(s) == \A i \in 1..Len(s) : IsSpace(s[i])

\* The maximal whitespace-free runs of s
TokensOf(s) ==
    {SubSeq(s, a, b) : <<a, b>> \in
        {p \in (1..Len(s)) \X (1..Len(s)) :
            /\ p[1] <= p[2]
            /\ \A i \in p[1]..p[2] : ~IsSpace(s[i])
            /\ (p[1] = 1 \/ IsSpace(s[p[1] - 1]))
            /\ (p[2] = Len(s) \/ IsSpace(s[p[2] + 1]))}}

\* The tokens the query shares with the template of entry i
SharedTokens(i) == TokensOf(Normalize(user_input)) \cap TokensOf(Lower(kb_items[i][2]))

\* C1: when several entries reach the same maximal score and match answers,
\* the answer is that of the earliest of them: a later entry with an equal
\* or lower score never replaces the current best.
C1_FirstMaxWins ==
    (AllScored /\ MaxScore >= Threshold) => basic_answer = kb_items[FirstMax][3]

C1_Witness ==
    /\ AllScored
    /\ MaxScore >= Threshold
    /\ \E i, j \in Entries :
          /\ i < j
          /\ FinalScore(i) = MaxScore
          /\ FinalScore(j) = MaxScore
          /\ kb_items[i][3] # kb_items[j][3]
          /\ \A k \in 1..(i - 1) : FinalScore(k) < MaxScore
          /\ basic_answer = kb_items[i][3]

\* C2: for a non-empty normalized query and a non-empty index, match returns
\* the answer of a maximal-score entry if and only if the maximal score is
\* at least 1.0, and absence otherwise; an entry whose template is a
\* substring of the query always yields an answer.
C2_ThresholdDecides ==
    (pc = "answered" /\ ~Blank(user_input) /\ kb_items # <<>>) =>
        /\ AllScored
        /\ IF MaxScore >= Threshold
           THEN /\ basic_answer # EmptyStr
                /\ \E i \in Entries : FinalScore(i) = MaxScore /\ basic_answer = kb_items[i][3]
           ELSE basic_answer = EmptyStr
        /\ (\E i \in Entries : Contains(Normalize(user_input), Lower(kb_items[i][2])))
               => basic_answer # EmptyStr

C2_Witness ==
    /\ AllScored
    /\ MaxScore = Threshold
    /\ basic_answer # EmptyStr
    /\ \E i \in Entries : FinalScore(i) = MaxScore /\ basic_answer = kb_items[i][3]

\* C3 (as claimed): if the category and the substring signal are absent for
\* every entry, match returns absence, however many tokens are shared.
C3_NeverOnOverlapAlone ==
    (AllScored /\ \A i \in Entries : CategoryPart(i) = 0 /\ SubstringPart(i) = 0)
        => basic_answer = EmptyStr

\* C3 (amended): if the category and the substring signal are absent for
\* every entry, match returns absence exactly when no entry shares two or
\* more tokens with the query.
C3_OverlapAloneNeedsTwoTokens ==
    (AllScored /\ \A i \in Entries : CategoryPart(i) = 0 /\ SubstringPart(i) = 0)
        => (basic_answer = EmptyStr <=> \A i \in Entries : Cardinality(SharedTokens(i)) <= 1)

C3_Witness ==
    /\ AllScored
    /\ \A i \in Entries : CategoryPart(i) = 0 /\ SubstringPart(i) = 0
    /\ \E i \in Entries : Cardinality(SharedTokens(i)) = 1
    /\ \A i \in Entries : Cardinality(SharedTokens(i)) <= 1
    /\ basic_answer = EmptyStr

\* C4 (as claimed): the token-overlap signal adds 0.5 for each shared token
\* of length 3 or more, and nothing for a shorter one.
C4_ShortTokensExcluded ==
    AllScored =>
        \A i \in Entries : TokenPart(i) = Cardinality({t \in SharedTokens(i) : Len(t) >= 3})

\* C4 (amended): the token-overlap signal adds 0.5 for each shared
\* whitespace-separated token, of whatever length.
C4_EveryTokenCounts ==
    AllScored => \A i \in Entries : TokenPart(i) = Cardinality(SharedTokens(i))

C4_Witness ==
    /\ AllScored
    /\ \E i \in Entries :
          /\ \E t \in SharedTokens(i) : Len(t) <= 2
          /\ \E t \in SharedTokens(i) : Len(t) >= 3
          /\ TokenPart(i) = 2

\* The keys of the table and the keywords of a key
TableKeys == {cat_keywords[i][1] : i \in 1..Len(cat_keywords)}

TableKeywords(key) ==
    LET row == CHOOSE i \in 1..Len(cat_keywords) : cat_keywords[i][1] = key
    IN  {cat_keywords[row][2][j] : j \in 1..Len(cat_keywords[row][2])}

\* The category signal for the table key `key` and the normalized query ui
NameOrKeywordIn(ui, key) ==
    /\ key \in TableKeys
    /\ (Contains(ui, key) \/ \E kw \in TableKeywords(key) : Contains(ui, kw))

\* C5 (as claimed): the category signal adds 1.0 if the trimmed, lower-cased
\* category name or a keyword of that category is a substring of the
\* normalized query, and 0 otherwise or when the category is not in the table.
C5_NormalizedCategorySignal ==
    AllScored =>
        \A i \in Entries :
            CategoryPart(i) =
                IF NameOrKeywordIn(Normalize(user_input), Strip(Lower(kb_items[i][1])))
                THEN CatWeight ELSE 0

\* C5 (amended): the category signal adds 1.0 if the category name exactly as
\* stored (not trimmed, not lower-cased) is a key of the table and that name
\* or one of its keywords is a substring of the normalized query, and 0
\* otherwise.
C5_VerbatimCategorySignal ==
    AllScored =>
        \A i \in Entries :
            CategoryPart(i) =
                IF NameOrKeywordIn(Normalize(user_input), kb_items[i][1])
                THEN CatWeight ELSE 0

C5_Witness ==
    /\ AllScored
    /\ \E i, j \in Entries :
          /\ kb_items[i][1] = S_Soil
          /\ kb_items[j][1] = S_soil
          /\ Contains(Normalize(user_input), S_ph)
          /\ CategoryPart(i) = 0
          /\ CategoryPart(j) = CatWeight

\* C10: match returns absence, and scores no entry, whenever the normalized
\* query is empty and whenever the index is empty.
C10_EmptyInputsGiveAbsence ==
    (pc = "answered" /\ (Blank(user_input) \/ kb_items = <<>>))
        => basic_answer = EmptyStr /\ scores = <<>>

C10_Witness ==
    /\ pc = "answered"
    /\ user_input # EmptyStr
    /\ Blank(user_input)
    /\ kb_items # <<>>
    /\ basic_answer = EmptyStr
    /\ scores = <<>>

(***************************************************************************)
(* Properties of load_any_kb (checked under Spec)                          *)
(***************************************************************************)
Sources == 1..Len(candidates)

\* A source that parsed into a JSON object
IsMapping(i) == files[i].kind = "json" /\ files[i].data.type = "dict"

\* A source that parsed into a mapping from category name to lists of records
WellFormed(i) ==
    /\ IsMapping(i)
    /\ \A n \in 1..Len(files[i].data.items) : files[i].data.items[n][2].type = "list"

\* The keys a mapping source defines, and the value it gives a key
KeysOf(i) == {files[i].data.items[n][1] : n \in 1..Len(files[i].data.items)}

ValueIn(i, k) ==
    files[i].data.items[CHOOSE n \in 1..Len(files[i].data.items) : files[i].data.items[n][1] = k][2]

KbKeys == {kb[n][1] : n \in 1..Len(kb)}

KbValue(k) == kb[CHOOSE n \in 1..Len(kb) : kb[n][1] = k][2]

\* kb holds, for every key some source of S defines, the value of the
\* earliest source of S that defines it, and nothing else
KbIsMergeOf(S) ==
    /\ KbKeys = UNION {KeysOf(i) : i \in S}
    /\ Len(kb) = Cardinality(KbKeys)
    /\ \A k \in KbKeys :
          \E i \in S : /\ k \in KeysOf(i)
                       /\ \A j \in S : j < i => k \notin KeysOf(j)
                       /\ KbValue(k) = ValueIn(i, k)

\* The st.error calls of load_any_kb name the file
LoadErrors == {st_errors[n] : n \in 1..Len(st_errors)} \cap {candidates[i] : i \in Sources}

\* C6: the merged knowledge base holds, for every category, exactly the
\* content of the earliest usable source that defines it; a later source
\* only adds categories that are absent so far.
C6_FirstSourceWins ==
    pc # "start" => KbIsMergeOf({i \in Sources : IsMapping(i)})

C6_Witness ==
    /\ pc = "loaded"
    /\ IsMapping(1) /\ IsMapping(2)
    /\ \E k \in KeysOf(1) \cap KeysOf(2) :
          /\ ValueIn(1, k) # ValueIn(2, k)
          /\ KbValue(k) = ValueIn(1, k)
    /\ KeysOf(2) \ KeysOf(1) # {}

\* C7 (as claimed): a source that exists but does not parse into a mapping
\* from category name to a sequence of records gets a diagnostic and
\* contributes no category; the other sources are still loaded; a missing
\* source gets no diagnostic.
C7_MalformedSkipped ==
    pc # "start" =>
        /\ \A i \in Sources :
              candidates[i] \in LoadErrors <=> (files[i].kind # "missing" /\ ~WellFormed(i))
        /\ KbIsMergeOf({i \in Sources : WellFormed(i)})

\* C7 (amended): a source that exists but cannot be parsed, or whose top
\* level is no mapping, gets a diagnostic and contributes no category, and
\* the other sources are still loaded; a missing source gets no diagnostic;
\* a source that is a mapping is merged as it is, without a diagnostic, also
\* when a category's value is no sequence of records.
C7_UnparseableSkipped ==
    pc # "start" =>
        /\ \A i \in Sources :
              candidates[i] \in LoadErrors <=> (files[i].kind # "missing" /\ ~IsMapping(i))
        /\ KbIsMergeOf({i \in Sources : IsMapping(i)})

C7_Witness ==
    /\ pc = "loaded"
    /\ files[1].kind # "missing" /\ ~IsMapping(1)
    /\ IsMapping(2) /\ KeysOf(2) # {}
    /\ kb = files[2].data.items
    /\ st_errors = <<candidates[1]>>

(***************************************************************************)
(* Properties of main and get_hf_response (checked under Spec)             *)
(***************************************************************************)
\* C9: the hosted model is called only when the matcher returned an answer;
\* when the token is missing or the call raises, the response is the factual
\* answer verbatim; when the matcher returned absence the model is not
\* called and the response is the fallback message.
C9_RewriteFallsBack ==
    pc = "answered" =>
        /\ hf_called => basic_answer # EmptyStr
        /\ basic_answer = EmptyStr => ~hf_called /\ final_response = fallback_message
        /\ (basic_answer # EmptyStr /\ (~has_token \/ hf_raised)) => final_response = basic_answer
        /\ messages[Len(messages)] = [role |-> "assistant", content |-> final_response]

C9_Witness ==
    /\ pc = "answered"
    /\ basic_answer # EmptyStr
    /\ hf_called
    /\ hf_raised
    /\ final_response = basic_answer

(***************************************************************************)
(* Properties of flatten_kb (checked under FlattenSpec)                    *)
(***************************************************************************)
\* The first and the last character of s that is no whitespace
FirstInk(s) == CHOOSE i \in 1..Len(s) : ~IsSpace(s[i]) /\ \A j \in 1..(i - 1) : IsSpace(s[j])

LastInk(s) == CHOOSE i \in 1..Len(s) : ~IsSpace(s[i]) /\ \A j \in (i + 1)..Len(s) : IsSpace(s[j])

\* s without its leading and trailing whitespace
Trimmed(s) == IF Blank(s) THEN EmptyStr ELSE SubSeq(s, FirstInk(s), LastInk(s))

\* A record whose query and answer are present and not blank
Complete(rec) ==
    /\ "query" \in DOMAIN rec /\ ~Blank(rec.query)
    /\ "answer" \in DOMAIN rec /\ ~Blank(rec.answer)

\* The (category, record) positions of the complete records of kb
Kept ==
    {p \in (1..Len(kb)) \X (1..MaxRecs + 1) :
        /\ kb[p[1]][2].type = "list"
        /\ p[2] <= Len(kb[p[1]][2].items)
        /\ Complete(kb[p[1]][2].items[p[2]])}

Before(p, q) == p[1] < q[1] \/ (p[1] = q[1] /\ p[2] < q[2])

\* The place of a kept record among the kept records, in source order
Rank(p) == 1 + Cardinality({q \in Kept : Before(q, p)})

\* C8: flatten emits exactly one entry, in source order, for every record
\* whose query and answer are both present and non-empty after trimming, and
\* nothing for any other record.
C8_FlattenKeepsCompleteRecords ==
    pc = "ready" =>
        /\ Len(kb_items) = Cardinality(Kept)
        /\ \A p \in Kept :
              kb_items[Rank(p)] = <<kb[p[1]][1],
                                    Trimmed(kb[p[1]][2].items[p[2]].query),
                                    Trimmed(kb[p[1]][2].items[p[2]].answer)>>

C8_Witness ==
    /\ pc = "ready"
    /\ Len(kb_items) = 2
    /\ Len(kb) = 2
    /\ \E c \in 1..Len(kb) :
          /\ kb[c][2].type = "list"
          /\ Len(kb[c][2].items) = 2
          /\ ~Complete(kb[c][2].items[1])
          /\ Complete(kb[c][2].items[2])
    /\ kb_items[1][1] # kb_items[2][1]

====
